---- MODULE Spec2Model ----
(***************************************************************************)
(* A model of the interactive shell of src/main.c: the history store, the  *)
(* raw-mode line editor (read_line), the parser (parse_pipeline), the      *)
(* pipeline executor (execute_command / execute_pipeline) with the child   *)
(* processes it spawns, and the main loop.                                 *)
(*                                                                         *)
(* C strings are sequences of one-character strings; history[] and the     *)
(* descriptor tables keep the C indices (0-based) as function domains.     *)
(*                                                                         *)
(* Specifications:                                                         *)
(*   Spec      the whole shell, driven by a bounded set of typed lines     *)
(*   HistSpec  add_to_history / show_history called up to past capacity    *)
(*   EditSpec  one read_line call with free keys over a small alphabet     *)
(*   ParseSpec parse_pipeline applied to every short line over the         *)
(*             parser's alphabet                                           *)
(*   PipeSpec  one execute_pipeline call on a bounded set of pipelines,    *)
(*             FairPipeSpec the same with the scheduler's fairness         *)
(***************************************************************************)
EXTENDS Integers, Sequences, FiniteSets, TLC

\* ------------------------------------------------------------------------
\* Program constants (src/main.c:13-16)
\* ------------------------------------------------------------------------
MAX_ARGS == 64
MAX_CMD_LEN == 1024
MAX_PIPES == 10
MAX_HISTORY == 100

STDIN_FILENO == 0
STDOUT_FILENO == 1

\* ------------------------------------------------------------------------
\* Bounds of the model
\* ------------------------------------------------------------------------
\* add_to_history is called up to MAX_HISTORY + HistOver times in HistSpec
HistOver == 3
\* longest line typed in EditSpec
MaxLen == 2
\* most entries in the history a read_line call of EditSpec starts with
MaxHist == 2
\* longest line handed to parse_pipeline in ParseSpec
MaxLineLen == 3
\* most '|'-separated segments of a directed line of ParseSpec
MaxSegs == 11
\* most items after the program name in a directed line of ParseSpec
MaxItems == 3
\* most lines recorded beyond MAX_HISTORY before read_line starts in RecallSpec
EditOver == 1
\* most stages of a pipeline handed to execute_pipeline in PipeSpec
MaxStages == 3
\* number of read_line calls of a session in Spec
MaxReads == 2
\* most consecutive Up presses counted in one run of history recall
MaxUps == 3
\* descriptors a process may hold (the close loop runs to _SC_OPEN_MAX)
OpenMax == 8

\* ------------------------------------------------------------------------
\* C strings
\* ------------------------------------------------------------------------
\* a null pointer where a char* is expected
NULL == <<"(null)">>

Digits == <<"0", "1", "2", "3", "4", "5", "6", "7", "8", "9">>

\* the decimal spelling of n, used as the n-th distinct line of HistSpec
RECURSIVE LineFor(_)
LineFor(n) ==
    IF n < 10 THEN <<Digits[n + 1]>>
    ELSE LineFor(n \div 10) \o <<Digits[(n % 10) + 1]>>

Min(a, b) == IF a < b THEN a ELSE b

\* ------------------------------------------------------------------------
\* State
\* ------------------------------------------------------------------------
VARIABLES
    \* main loop
    pc,               \* position of the shell process
    input_line,       \* main: char *input_line
    reads,            \* number of read_line calls so far (bounded by MaxReads)
    foreground_mode,  \* volatile sig_atomic_t foreground_mode
    pipeline,         \* main: Command pipeline[MAX_PIPES], entries 0..cmd_count-1
    cmd_count,        \* main: int cmd_count
    parsed,           \* ghost: the line handed to the last parse_pipeline call
    sig,              \* sigint_handler: "idle", or "stdio" while it prints
    \* history store
    history,          \* char *history[MAX_HISTORY]
    history_count,    \* int history_count
    listing,          \* what the last show_history printed: <<index, text>> pairs
    submitted,        \* ghost: every non-empty line recorded so far, in order
    lastCall,         \* ghost: argument of the last add_to_history call
    \* terminal
    term,             \* the terminal's current attributes
    orig_termios,     \* struct termios orig_termios
    enables,          \* ghost: enableRawMode calls of the current read_line
    restores,         \* ghost: disableRawMode calls of the current read_line
    stdinEof,         \* the terminal input has reached end-of-input
    \* read_line locals
    line,             \* static char line[MAX_CMD_LEN], up to its terminator
    len,
    pos,
    history_index,
    saved_line,
    emitted,          \* what the last key handler wrote to stdout
    exitPath,         \* ghost: how the read loop was left
    recall,           \* ghost: the current run of Up/Down presses
    \* execute_pipeline
    i,                \* loop index
    input_fd,
    fd,               \* int fd[2]
    fds,              \* descriptor table of the shell process
    procs,            \* child processes not yet reaped
    kinds,            \* behaviour of the program of each stage
    run               \* ghost: number of the current execute_pipeline call, pipes
                      \* created, whether it called waitpid, whether pipe()
                      \* failed, foreground_mode at the call

mainVars == <<pc, input_line, reads, foreground_mode, pipeline, cmd_count,
              parsed, sig>>
histVars == <<history, history_count, listing, submitted, lastCall>>
termVars == <<term, orig_termios, enables, restores, stdinEof>>
editVars == <<line, len, pos, history_index, saved_line, emitted, exitPath, recall>>
execVars == <<i, input_fd, fd, fds, procs, kinds, run>>

vars == <<mainVars, histVars, termVars, editVars, execVars>>

\* ------------------------------------------------------------------------
\* History store (src/main.c:27-63)
\* ------------------------------------------------------------------------
HistorySlots == 0 .. (MAX_HISTORY - 1)

\* char *history[MAX_HISTORY] of a freshly started process
EmptyHistory == [k \in HistorySlots |-> NULL]

\* add_to_history, main.c:43-56: the new values of history and history_count
add_to_history_lossy(hist, count, cmd) ==
    IF Len(cmd) = 0 THEN [history |-> hist, history_count |-> count]
    ELSE IF count < MAX_HISTORY
         THEN [history |-> [hist EXCEPT ![count] = cmd],
               history_count |-> count + 1]
         ELSE [history |-> [hist EXCEPT ![MAX_HISTORY - 1] = cmd],
               history_count |-> count + 1]

add_to_history(hist, count, cmd) ==
    IF Len(cmd) = 0 THEN [history |-> hist, history_count |-> count]
    ELSE IF count < MAX_HISTORY
         THEN [history |-> [hist EXCEPT ![count] = cmd],
               history_count |-> count + 1]
         ELSE [history |->
                  [k \in HistorySlots |->
                      IF k < MAX_HISTORY - 1 THEN hist[k + 1] ELSE cmd],
               history_count |-> count + 1]

\* show_history, main.c:58-63: the printed lines as <<number, text>> pairs
show_history(hist, count) ==
    LET start == IF count > MAX_HISTORY THEN count - MAX_HISTORY ELSE 0
    IN  [k \in 1 .. (count - start) |->
            <<(start + k - 1) + 1, hist[(start + k - 1) % MAX_HISTORY]>>]

\* ------------------------------------------------------------------------
\* Parser (src/main.c:216-297)
\* ------------------------------------------------------------------------
\* the string terminator of a C buffer
NUL == "NUL"

Blank == {" ", "\t"}

\* a line as the NUL-terminated buffer strdup() makes of it; C offset p is
\* position p + 1 of the sequence
CBuffer(s) == s \o <<NUL>>

\* strlen(&B[p])
StrLen(B, p) ==
    (CHOOSE q \in p .. Len(B) :
        B[q] = NUL /\ \A r \in p .. (q - 1) : B[r] # NUL) - p

\* the C string that starts at position p of buffer B
CStr(B, p) == SubSeq(B, p, p + StrLen(B, p) - 1)

\* strspn(&B[p], D): first position at or after p that holds no delimiter
SkipDelims(B, p, D) ==
    CHOOSE q \in p .. Len(B) :
        B[q] \notin D /\ \A r \in p .. (q - 1) : B[r] \in D

\* strcspn(&B[p], D): first position at or after p that holds a delimiter
\* or the terminator
ScanToken(B, p, D) ==
    CHOOSE q \in p .. Len(B) :
        B[q] \in (D \cup {NUL}) /\ \A r \in p .. (q - 1) : B[r] \notin (D \cup {NUL})

\* strtok_r continuing (or starting) at position p: the token's position
\* (0 for a null result), the buffer with the delimiter overwritten, and the
\* new save pointer
strtok_r(B, p, D) ==
    LET start == SkipDelims(B, p, D)
        end == ScanToken(B, start, D)
    IN  IF B[start] = NUL THEN [tok |-> 0, buf |-> B, save |-> start]
        ELSE IF B[end] = NUL THEN [tok |-> start, buf |-> B, save |-> end]
        ELSE [tok |-> start, buf |-> [B EXCEPT ![end] = NUL], save |-> end + 1]

\* strchr(&B[p], c): position of the first c of the C string at p, 0 if none
StrChr(B, p, c) ==
    LET stop == p + StrLen(B, p)
        hits == {q \in p .. (stop - 1) : B[q] = c}
    IN  IF hits = {} THEN 0
        ELSE CHOOSE q \in hits : \A r \in hits : q <= r

\* main.c:236-239: a Command as initialised before its arguments are parsed
NewCommand ==
    [args |-> <<>>, input_file |-> NULL, output_file |-> NULL,
     append |-> 0, background |-> 0]

\* main.c:246-289, the argument loop of one segment; arg is the position of
\* the current token (0 when strtok_r returned a null pointer), asave the
\* save pointer, cmd the Command built so far (i = Len(cmd.args))
RECURSIVE ArgLoop(_, _, _, _)
ArgLoop(B, arg, asave, cmd) ==
    IF arg = 0 \/ ~(Len(cmd.args) < MAX_ARGS - 1) THEN cmd
    ELSE
      LET s == CStr(B, arg) IN
      IF s = <<">">> \/ s = <<">", ">">> THEN
          LET f == strtok_r(B, asave, Blank) IN
          IF f.tok = 0 THEN cmd
          ELSE IF f.buf[f.tok] = "\"" THEN
              LET f2 == strtok_r(f.buf, f.save, {"\""})
                  f3 == strtok_r(f2.buf, f2.save, Blank)
              IN  IF f2.tok = 0 THEN cmd
                  ELSE [cmd EXCEPT !.output_file = CStr(f3.buf, f2.tok),
                                   !.append = IF s = <<">", ">">> THEN 1 ELSE 0]
          ELSE [cmd EXCEPT !.output_file = CStr(f.buf, f.tok),
                           !.append = IF s = <<">", ">">> THEN 1 ELSE 0]
      ELSE IF s = <<"<">> THEN
          LET f == strtok_r(B, asave, Blank) IN
          IF f.tok = 0 THEN cmd
          ELSE [cmd EXCEPT !.input_file = CStr(f.buf, f.tok)]
      ELSE IF s = <<"&">> THEN
          LET n == strtok_r(B, asave, Blank) IN
          ArgLoop(n.buf, n.tok, n.save, [cmd EXCEPT !.background = 1])
      ELSE
          LET end_quote == IF B[arg] = "\"" THEN StrChr(B, arg + 1, "\"") ELSE 0 IN
          IF end_quote # 0 THEN
              LET B1 == [B EXCEPT ![end_quote] = NUL] IN
              ArgLoop(B1, end_quote + 1, asave,
                      [cmd EXCEPT !.args = Append(@, CStr(B1, arg + 1))])
          ELSE
              LET n == strtok_r(B, asave, Blank) IN
              ArgLoop(n.buf, n.tok, n.save,
                      [cmd EXCEPT !.args = Append(@, s)])

\* main.c:225-228: the segment at tok with leading and trailing spaces cut;
\* the position it now starts at and the buffer with the new terminator
TrimSegment(B, tok) ==
    LET t == SkipDelims(B, tok, {" "})
        last == t + StrLen(B, t) - 1
        back == {q \in t .. last : \A r \in (q + 1) .. last : B[r] = " "}
        end == IF last > t
               THEN CHOOSE q \in back : \A r \in back : q <= r
               ELSE last
    IN  [tok |-> t, buf |-> [B EXCEPT ![end + 1] = NUL]]

\* main.c:224: the cmd_count < MAX_PIPES half of the loop condition
HasRoom_always(n) == TRUE

HasRoom(n) == n < MAX_PIPES

\* main.c:223-293, the segment loop; tok is the current segment (0 for a
\* null pointer), save the save pointer, cmds the stages built so far
RECURSIVE SegmentLoop(_, _, _, _)
SegmentLoop(B, tok, save, cmds) ==
    IF tok = 0 \/ ~HasRoom(Len(cmds)) THEN cmds
    ELSE
      LET tr == TrimSegment(B, tok) IN
      IF StrLen(tr.buf, tr.tok) = 0 THEN
          LET n == strtok_r(tr.buf, save, {"|"}) IN
          SegmentLoop(n.buf, n.tok, n.save, cmds)
      ELSE
          LET a == strtok_r(tr.buf, tr.tok, Blank)
              cmd == ArgLoop(a.buf, a.tok, a.save, NewCommand)
              n == strtok_r(tr.buf, save, {"|"})
          IN  SegmentLoop(n.buf, n.tok, n.save, Append(cmds, cmd))

\* parse_pipeline, main.c:216-297: the stages pipeline[0 .. cmd_count-1]
\* (as a sequence; cmd_count is its length)
parse_pipeline(l) ==
    LET B == CBuffer(l)
        first == strtok_r(B, 1, {"|"})
    IN  SegmentLoop(first.buf, first.tok, first.save, <<>>)

\* ------------------------------------------------------------------------
\* Terminal mode (src/main.c:30-41)
\* ------------------------------------------------------------------------
\* the c_lflag bits of a terminal in its usual line-buffered, echoing mode
CookedMode == [icanon |-> TRUE, echo |-> TRUE]

\* enableRawMode, main.c:36-41: the saved attributes and the new ones
enableRawMode(t) ==
    [orig_termios |-> t, term |-> [t EXCEPT !.icanon = FALSE, !.echo = FALSE]]

\* disableRawMode, main.c:32-34: the attributes of the terminal afterwards
disableRawMode_keeps(t, orig) == t

disableRawMode(t, orig) == orig

\* ------------------------------------------------------------------------
\* Line editor (src/main.c:98-214)
\* ------------------------------------------------------------------------
Prompt9 == <<"m", "y", "s", "h", "e", "l", "l", ">", " ">>

\* one write to stdout
Out(op, text, n) == [op |-> op, text |-> text, n |-> n]

\* main.c:138-139 (and 160-161, 187-188, 199-200): erase the line, return
\* to column one and print the prompt and the buffer
Redraw(l) == <<Out("EL2", <<>>, 0), Out("CR", <<>>, 0), Out("text", Prompt9 \o l, 0)>>

\* main.c:189 and 201: printf("\033[%dG", pos + 8 + 1)
MoveTo(p) == <<Out("CHA", <<>>, p + 8 + 1)>>

\* strncpy(dst, src, n) into a buffer of n bytes, read back as a C string
StrNCpy(src, n) == SubSeq(src, 1, Min(Len(src), n))

\* main.c:194-198: the buffer after inserting c at offset p of n characters
InsertAt(l, p, n, c) == SubSeq(l, 1, p) \o <<c>> \o SubSeq(l, p + 1, n)

\* main.c:183-186: the buffer after removing the character before offset p
DeleteBefore(l, p, n) == SubSeq(l, 1, p - 1) \o SubSeq(l, p + 1, n)

\* ghost: the run of Up/Down presses after key k
NoRecall(k) == [key |-> k, phase |-> "none", ups |-> 0, downs |-> 0,
                line |-> <<>>, len |-> 0]

RecallAfterUp ==
    IF history_index = 0
    THEN [key |-> "up", phase |-> "up", ups |-> 1, downs |-> 0,
          line |-> line, len |-> len]
    ELSE IF recall.phase = "up"
    THEN [recall EXCEPT !.key = "up", !.ups = @ + 1]
    ELSE NoRecall("up")

RecallAfterDown ==
    IF recall.phase \in {"up", "down"}
    THEN [recall EXCEPT !.key = "down", !.phase = "down",
                        !.downs = Min(@ + 1, recall.ups + 1)]
    ELSE NoRecall("down")

\* main.c:99-107: entry of read_line
ReadLineEnter ==
    /\ pc = "rl_enter"
    /\ LET r == enableRawMode(term) IN
         /\ term' = r.term
         /\ orig_termios' = r.orig_termios
    /\ enables' = 1
    /\ restores' = 0
    /\ line' = <<>>
    /\ saved_line' = <<>>
    /\ len' = 0
    /\ pos' = 0
    /\ history_index' = 0
    /\ emitted' = <<>>
    /\ exitPath' = "none"
    /\ recall' = NoRecall("none")
    /\ pc' = "rl_loop"
    /\ UNCHANGED <<input_line, reads, parsed, sig, foreground_mode, pipeline,
                   cmd_count,
                   stdinEof, histVars, execVars>>

\* what every key handler leaves alone
KeyFrame ==
    UNCHANGED <<input_line, reads, parsed, sig, foreground_mode, pipeline,
                   cmd_count,
                term, orig_termios, enables, restores, histVars, execVars>>

\* main.c:111-114: read() does not deliver a byte
KeyEof ==
    /\ pc = "rl_loop"
    /\ stdinEof' = TRUE
    /\ len' = 0
    /\ pc' = "rl_exit"
    /\ exitPath' = IF Len(line) = 0 THEN "eof_empty" ELSE "eof"
    /\ emitted' = <<>>
    /\ recall' = NoRecall("eof")
    /\ UNCHANGED <<line, pos, history_index, saved_line>>
    /\ KeyFrame

\* main.c:116-118: Enter
KeyEnter ==
    /\ pc = "rl_loop" /\ ~stdinEof
    /\ emitted' = <<Out("text", <<"\n">>, 0)>>
    /\ pc' = "rl_exit"
    /\ exitPath' = "enter"
    /\ recall' = NoRecall("enter")
    /\ UNCHANGED <<line, len, pos, history_index, saved_line, stdinEof>>
    /\ KeyFrame

\* main.c:119-122: ESC, then a read of the sequence fails
KeyEscFail ==
    /\ pc = "rl_loop" /\ ~stdinEof
    /\ stdinEof' = TRUE
    /\ pc' = "rl_exit"
    /\ exitPath' = "escfail"
    /\ emitted' = <<>>
    /\ recall' = NoRecall("escfail")
    /\ UNCHANGED <<line, len, pos, history_index, saved_line>>
    /\ KeyFrame

\* the history entry a recall at browse index h loads: main.c:132-135 and
\* 152-155; idx is clamped below but not above
RecallIndex(h) ==
    LET idx == history_count - h IN IF idx < 0 THEN 0 ELSE idx

\* main.c:128: the draft is saved when the recall starts
SavesDraft_always(h) == TRUE

SavesDraft(h) == h = 0

\* what a read of history[idx] past the end of the array may find there
StrayStrings == {<<>>, <<"?">>}

\* main.c:135 and 155 with idx outside the array: the behaviour is
\* undefined; the process is stopped by the bad pointer, or the bytes the
\* pointer leads to are copied as a string
StrayRead ==
    \/ /\ pc' = "crashed"
       /\ emitted' = <<>>
       /\ UNCHANGED <<line, len, pos>>
    \/ \E g \in StrayStrings :
          /\ line' = g
          /\ len' = Len(g)
          /\ pos' = Len(g)
          /\ emitted' = Redraw(g)
          /\ pc' = pc

\* main.c:126-143: ESC [ A
KeyUp ==
    /\ pc = "rl_loop" /\ ~stdinEof
    /\ recall' = RecallAfterUp
    /\ IF history_index < history_count
       THEN LET idx == RecallIndex(history_index + 1) IN
            /\ saved_line' = IF SavesDraft(history_index)
                             THEN StrNCpy(line, MAX_CMD_LEN) ELSE saved_line
            /\ history_index' = history_index + 1
            /\ IF idx < history_count
               THEN IF idx \in HistorySlots
                    THEN /\ line' = StrNCpy(history[idx], MAX_CMD_LEN)
                         /\ len' = Len(line')
                         /\ pos' = len'
                         /\ emitted' = Redraw(line')
                         /\ pc' = pc
                    ELSE \* history[idx] lies outside the array
                         StrayRead
               ELSE /\ emitted' = <<>>
                    /\ UNCHANGED <<line, len, pos, pc>>
       ELSE /\ emitted' = <<>>
            /\ UNCHANGED <<line, len, pos, history_index, saved_line, pc>>
    /\ UNCHANGED <<exitPath, stdinEof>>
    /\ KeyFrame

\* main.c:144-164: ESC [ B
KeyDown ==
    /\ pc = "rl_loop" /\ ~stdinEof
    /\ recall' = RecallAfterDown
    /\ IF history_index > 0
       THEN /\ history_index' = history_index - 1
            /\ IF history_index' = 0
               THEN /\ line' = StrNCpy(saved_line, MAX_CMD_LEN)
                    /\ len' = Len(line')
                    /\ pos' = len'
                    /\ emitted' = Redraw(line')
                    /\ pc' = pc
               ELSE LET idx == RecallIndex(history_index') IN
                    IF idx < history_count
                    THEN IF idx \in HistorySlots
                         THEN /\ line' = StrNCpy(history[idx], MAX_CMD_LEN)
                              /\ len' = Len(line')
                              /\ pos' = len'
                              /\ emitted' = Redraw(line')
                              /\ pc' = pc
                         ELSE StrayRead
                    ELSE /\ emitted' = Redraw(line)
                         /\ UNCHANGED <<line, len, pos, pc>>
       ELSE /\ emitted' = <<>>
            /\ UNCHANGED <<line, len, pos, history_index, pc>>
    /\ UNCHANGED <<saved_line, exitPath, stdinEof>>
    /\ KeyFrame

\* main.c:165-171: ESC [ C
KeyRight ==
    /\ pc = "rl_loop" /\ ~stdinEof
    /\ IF pos < len
       THEN pos' = pos + 1 /\ emitted' = <<Out("CUF", <<>>, 1)>>
       ELSE pos' = pos /\ emitted' = <<>>
    /\ recall' = NoRecall("right")
    /\ UNCHANGED <<pc, line, len, history_index, saved_line, exitPath, stdinEof>>
    /\ KeyFrame

\* main.c:172-178: ESC [ D
KeyLeft ==
    /\ pc = "rl_loop" /\ ~stdinEof
    /\ IF pos > 0
       THEN pos' = pos - 1 /\ emitted' = <<Out("CUB", <<>>, 1)>>
       ELSE pos' = pos /\ emitted' = <<>>
    /\ recall' = NoRecall("left")
    /\ UNCHANGED <<pc, line, len, history_index, saved_line, exitPath, stdinEof>>
    /\ KeyFrame

\* main.c:181-191: Backspace (127) or Ctrl-H (8)
KeyBackspace ==
    /\ pc = "rl_loop" /\ ~stdinEof
    /\ IF pos > 0 /\ len > 0
       THEN /\ line' = DeleteBefore(line, pos, len)
            /\ len' = len - 1
            /\ pos' = pos - 1
            /\ emitted' = Redraw(line') \o MoveTo(pos')
       ELSE /\ emitted' = <<>>
            /\ UNCHANGED <<line, len, pos>>
    /\ recall' = NoRecall("backspace")
    /\ UNCHANGED <<pc, history_index, saved_line, exitPath, stdinEof>>
    /\ KeyFrame

\* main.c:193 without its test
HasSpace_always(n) == TRUE

\* main.c:193: the buffer can take one more character and its terminator
HasSpace(n) == n < MAX_CMD_LEN - 1

\* main.c:192-204: a printable character
KeyPrintable(c) ==
    /\ pc = "rl_loop" /\ ~stdinEof
    /\ IF HasSpace(len)
       THEN /\ line' = InsertAt(line, pos, len, c)
            /\ len' = len + 1
            /\ pos' = pos + 1
            /\ emitted' = Redraw(line') \o MoveTo(pos')
       ELSE /\ emitted' = <<>>
            /\ UNCHANGED <<line, len, pos>>
    /\ recall' = NoRecall("char")
    /\ UNCHANGED <<pc, history_index, saved_line, exitPath, stdinEof>>
    /\ KeyFrame

\* main.c:124-125, 179 and 192: an unrecognised escape sequence or a byte
\* that is neither printable nor a key
KeyIgnored ==
    /\ pc = "rl_loop" /\ ~stdinEof
    /\ emitted' = <<>>
    /\ recall' = NoRecall("ignored")
    /\ UNCHANGED <<pc, line, len, pos, history_index, saved_line, exitPath, stdinEof>>
    /\ KeyFrame

\* main.c:209: whether the line is recorded
RecordsLine(n) == n > 0

\* main.c:207-213: leave read_line
ReadLineFinish ==
    /\ pc = "rl_exit"
    /\ term' = disableRawMode(term, orig_termios)
    /\ restores' = restores + 1
    /\ LET h == IF RecordsLine(len)
                THEN add_to_history(history, history_count, line)
                ELSE [history |-> history, history_count |-> history_count]
       IN  /\ history' = h.history
           /\ history_count' = h.history_count
           /\ submitted' = IF RecordsLine(len) /\ Len(line) > 0
                           THEN Append(submitted, line) ELSE submitted
           /\ lastCall' = IF RecordsLine(len) THEN line ELSE lastCall
    /\ input_line' = line
    /\ pc' = "main_check"
    \* the locals end with the call; the static buffer is not read again
    \* before the memset of the next call
    /\ line' = <<>> /\ len' = 0 /\ pos' = 0 /\ history_index' = 0
    /\ saved_line' = <<>> /\ emitted' = <<>>
    /\ UNCHANGED <<reads, parsed, sig, foreground_mode, pipeline, cmd_count, listing,
                   orig_termios, enables, stdinEof, exitPath, recall, execVars>>

\* ------------------------------------------------------------------------
\* Descriptors and processes (src/main.c:299-401)
\* ------------------------------------------------------------------------
\* what an open descriptor refers to
Tty == [kind |-> "tty", run |-> 0, idx |-> 0, end |-> "rw", name |-> <<>>]
PipeEnd(r, k, e) == [kind |-> "pipe", run |-> r, idx |-> k, end |-> e, name |-> <<>>]
File(nm, e) == [kind |-> "file", run |-> 0, idx |-> 0, end |-> e, name |-> nm]

\* descriptors 0, 1 and 2 of a shell started on a terminal
StdTable == [n \in 0 .. 2 |-> Tty]

FreeFds(tbl) == (0 .. (OpenMax - 1)) \ DOMAIN tbl

\* the lowest descriptor number not in use, as open() and pipe() pick it
LowestFree(tbl) == CHOOSE n \in FreeFds(tbl) : \A m \in FreeFds(tbl) : n <= m

Open(tbl, n, d) == [m \in DOMAIN tbl \cup {n} |-> IF m = n THEN d ELSE tbl[m]]

Close(tbl, n) == [m \in DOMAIN tbl \ {n} |-> tbl[m]]

\* dup2(old, new); fails and changes nothing when old is not open
Dup2(tbl, old, new) ==
    IF old \in DOMAIN tbl THEN Open(tbl, new, tbl[old]) ELSE tbl

\* main.c:350: for (i = 3; i < sysconf(_SC_OPEN_MAX); i++) close(i)
CloseFrom3_none(tbl) == tbl

CloseFrom3(tbl) == [m \in DOMAIN tbl \cap (0 .. 2) |-> tbl[m]]

\* main.c:319-327: the table after the input redirection, given that the
\* file opened
RedirectInput(tbl, cmd) ==
    IF cmd.input_file # NULL
    THEN LET n == LowestFree(tbl)
         IN  Close(Dup2(Open(tbl, n, File(cmd.input_file, "r")), n, STDIN_FILENO), n)
    ELSE tbl

\* main.c:329-338: the table after the output redirection
RedirectOutput(tbl, cmd) ==
    IF cmd.output_file # NULL
    THEN LET n == LowestFree(tbl)
         IN  Close(Dup2(Open(tbl, n, File(cmd.output_file, "w")), n, STDOUT_FILENO), n)
    ELSE tbl

\* main.c:340-348: the pipe ends handed to execute_command take the place
\* of standard input and standard output
WirePipes(tbl, in_fd, out_fd) ==
    LET t1 == IF in_fd # STDIN_FILENO
              THEN Close(Dup2(tbl, in_fd, STDIN_FILENO), in_fd) ELSE tbl
        t2 == IF out_fd # STDOUT_FILENO
              THEN Close(Dup2(t1, out_fd, STDOUT_FILENO), out_fd) ELSE t1
    IN  t2

\* main.c:319-350 with the dup2 calls of the pipe ends placed first
ChildTable_filesLast(tbl, cmd, in_fd, out_fd) ==
    CloseFrom3(RedirectOutput(RedirectInput(WirePipes(tbl, in_fd, out_fd), cmd), cmd))

\* main.c:319-350: the descriptor table of the child at execvp
ChildTable(tbl, cmd, in_fd, out_fd) ==
    CloseFrom3(WirePipes(RedirectOutput(RedirectInput(tbl, cmd), cmd), in_fd, out_fd))

\* main.c:301-308: quotes around a whole argument are cut off
StripQuotes(a) ==
    IF Len(a) >= 2 /\ a[1] = "\"" /\ a[Len(a)] = "\""
    THEN SubSeq(a, 2, Len(a) - 1) ELSE a

\* behaviour of an external program: it ends by itself, ends when it reads
\* end-of-stream on standard input, or never ends
Kinds == {"self", "eof", "forever"}

\* the programs a pipeline of n stages is run with in the model: the first
\* ends by itself or never, the others are filters
KindChoices(n) ==
    {ks \in [1 .. n -> Kinds] :
        /\ ks[1] \in {"self", "forever"}
        /\ \A k \in 2 .. n : ks[k] = "eof"}

NoProcs == [p \in {} |-> 0]

NewPid == CHOOSE p \in 0 .. Cardinality(DOMAIN procs) : p \notin DOMAIN procs

\* some process still holds the write end of pipe <<r, k>>
WriterOpen(r, k) ==
    \/ \E n \in DOMAIN fds : fds[n] = PipeEnd(r, k, "w")
    \/ \E p \in DOMAIN procs :
          \E n \in DOMAIN procs[p].fds : procs[p].fds[n] = PipeEnd(r, k, "w")

\* a read of standard input by child c returns end-of-stream
SeesEof(c) ==
    /\ STDIN_FILENO \in DOMAIN c.fds
    /\ LET d == c.fds[STDIN_FILENO] IN
         \/ d.kind = "file"
         \/ d.kind = "pipe" /\ ~WriterOpen(d.run, d.idx)
         \/ d.kind = "tty" /\ stdinEof

NoRun == [no |-> 0, pipes |-> 0, waits |-> 0, failed |-> FALSE, fg0 |-> 1]

shellFrame ==
    UNCHANGED <<input_line, reads, parsed, sig, histVars, termVars, editVars>>

\* main.c:376-382: head of the stage loop; pipe() succeeds
EpLoop ==
    /\ pc = "ep_loop"
    /\ IF i < cmd_count
       THEN IF i < cmd_count - 1
            THEN /\ Cardinality(FreeFds(fds)) >= 2
                 /\ LET r == LowestFree(fds)
                        w == LowestFree(Open(fds, r, Tty))
                    IN  /\ fds' = Open(Open(fds, r, PipeEnd(run.no, i, "r")),
                                       w, PipeEnd(run.no, i, "w"))
                        /\ fd' = [k \in 0 .. 1 |-> IF k = 0 THEN r ELSE w]
                 /\ run' = [run EXCEPT !.pipes = @ + 1]
                 /\ pc' = "ep_fork"
            ELSE /\ pc' = "ep_fork"
                 /\ UNCHANGED <<fds, fd, run>>
       ELSE /\ pc' = "ep_after"
            /\ UNCHANGED <<fds, fd, run>>
    /\ UNCHANGED <<i, input_fd, procs, kinds, foreground_mode, pipeline, cmd_count>>
    /\ shellFrame

\* main.c:378-381: pipe() fails
EpPipeFail ==
    /\ pc = "ep_loop"
    /\ i < cmd_count - 1
    /\ run' = [run EXCEPT !.failed = TRUE]
    /\ pc' = "free"
    /\ UNCHANGED <<i, input_fd, fd, fds, procs, kinds, foreground_mode,
                   pipeline, cmd_count>>
    /\ shellFrame

\* main.c:384-385 with 301-310: execute_command up to and including fork()
EpFork ==
    /\ pc = "ep_fork"
    /\ LET cmd == [pipeline[i + 1] EXCEPT
                      !.args = [k \in DOMAIN @ |-> StripQuotes(@[k])]]
           out == IF i = cmd_count - 1 THEN STDOUT_FILENO ELSE fd[1]
       IN  /\ pipeline' = [pipeline EXCEPT ![i + 1] = cmd]
           /\ procs' = [p \in DOMAIN procs \cup {NewPid} |->
                          IF p = NewPid
                          THEN [state |-> "forked", fds |-> fds, run |-> run.no,
                                stage |-> i, nstages |-> cmd_count,
                                kind |-> kinds[i + 1], cmd |-> cmd,
                                input_fd |-> input_fd, output_fd |-> out,
                                status |-> 0]
                          ELSE procs[p]]
    /\ pc' = "ep_close"
    /\ UNCHANGED <<i, input_fd, fd, fds, kinds, run, foreground_mode, cmd_count>>
    /\ shellFrame

\* main.c:387-391: the parent closes what it passed on
EpClose_keepsWriteEnd ==
    /\ pc = "ep_close"
    /\ LET t1 == IF input_fd # STDIN_FILENO THEN Close(fds, input_fd) ELSE fds
       IN  IF i < cmd_count - 1
           THEN fds' = t1 /\ input_fd' = fd[0]
           ELSE fds' = t1 /\ input_fd' = input_fd
    /\ i' = i + 1
    /\ pc' = "ep_loop"
    /\ UNCHANGED <<fd, procs, kinds, run, foreground_mode, pipeline, cmd_count>>
    /\ shellFrame

EpClose ==
    /\ pc = "ep_close"
    /\ LET t1 == IF input_fd # STDIN_FILENO THEN Close(fds, input_fd) ELSE fds
       IN  IF i < cmd_count - 1
           THEN fds' = Close(t1, fd[1]) /\ input_fd' = fd[0]
           ELSE fds' = t1 /\ input_fd' = input_fd
    /\ i' = i + 1
    /\ pc' = "ep_loop"
    /\ UNCHANGED <<fd, procs, kinds, run, foreground_mode, pipeline, cmd_count>>
    /\ shellFrame

\* main.c:394: which stage decides whether the shell waits
WaitsFor_any(cmds, n) == \A k \in 1 .. n : cmds[k].background = 0

WaitsFor(cmds, n) == cmds[n].background = 0

\* main.c:394-400: wait, or return at once
EpAfter ==
    /\ pc = "ep_after"
    /\ IF WaitsFor(pipeline, cmd_count)
       THEN pc' = "ep_wait" /\ UNCHANGED foreground_mode
       ELSE pc' = "free" /\ foreground_mode' = 0
    /\ UNCHANGED <<pipeline, cmd_count, execVars>>
    /\ shellFrame

\* main.c:396: waitpid(-1, &status, 0) returns an exited child
EpReap(p) ==
    /\ pc = "ep_wait"
    /\ p \in DOMAIN procs
    /\ procs[p].state = "zombie"
    /\ procs' = [q \in DOMAIN procs \ {p} |-> procs[q]]
    /\ run' = [run EXCEPT !.waits = 1]
    /\ UNCHANGED <<pc, i, input_fd, fd, fds, kinds, foreground_mode,
                   pipeline, cmd_count>>
    /\ shellFrame

\* main.c:396-397: waitpid finds no child left
EpWaitDone ==
    /\ pc = "ep_wait"
    /\ DOMAIN procs = {}
    /\ foreground_mode' = 1
    /\ run' = [run EXCEPT !.waits = 1]
    /\ pc' = "free"
    /\ UNCHANGED <<i, input_fd, fd, fds, procs, kinds, pipeline, cmd_count>>
    /\ shellFrame

\* main.c:322, 332, 353 with a successful exit status
FailedChild_succeeds(c) ==
    [c EXCEPT !.state = "zombie", !.status = 0,
              !.fds = [n \in {} |-> Tty],
              !.cmd = NewCommand,
              !.input_fd = STDIN_FILENO, !.output_fd = STDOUT_FILENO]

\* main.c:322, 332, 353: exit(EXIT_FAILURE) in the child after a failed
\* open() or execvp(); its descriptors are closed by the exit
FailedChild(c) ==
    [c EXCEPT !.state = "zombie", !.status = 1,
              !.fds = [n \in {} |-> Tty],
              !.cmd = NewCommand,
              !.input_fd = STDIN_FILENO, !.output_fd = STDOUT_FILENO]

\* main.c:313-354: the child between fork() and the new program image
ChildExec(p) ==
    /\ p \in DOMAIN procs
    /\ procs[p].state = "forked"
    /\ LET c == procs[p] IN
       \E inOk, outOk, execOk \in BOOLEAN :
         /\ c.cmd.input_file = NULL => inOk
         /\ (c.cmd.output_file = NULL \/ ~inOk) => outOk
         /\ (~inOk \/ ~outOk) => execOk
         /\ procs' = [procs EXCEPT ![p] =
              IF inOk /\ outOk /\ execOk /\ c.cmd.args # <<>>
              THEN [c EXCEPT !.state = "running",
                             !.fds = ChildTable(c.fds, c.cmd, c.input_fd, c.output_fd),
                             !.cmd = NewCommand,
                             !.input_fd = STDIN_FILENO, !.output_fd = STDOUT_FILENO]
              ELSE FailedChild(c)]
    /\ UNCHANGED <<mainVars, histVars, termVars, editVars,
                   i, input_fd, fd, fds, kinds, run>>

\* the program of a stage ends
ChildExit(p) ==
    /\ p \in DOMAIN procs
    /\ procs[p].state = "running"
    /\ \/ procs[p].kind = "self"
       \/ procs[p].kind = "eof" /\ SeesEof(procs[p])
    /\ procs' = [procs EXCEPT ![p] =
                    [@ EXCEPT !.state = "zombie", !.fds = [n \in {} |-> Tty]]]
    /\ UNCHANGED <<mainVars, histVars, termVars, editVars,
                   i, input_fd, fd, fds, kinds, run>>

\* ------------------------------------------------------------------------
\* Main loop (src/main.c:403-441)
\* ------------------------------------------------------------------------
\* main.c:411-412: the prompt; the model stops after MaxReads lines
Prompt ==
    /\ pc = "prompt"
    /\ reads < MaxReads
    /\ reads' = reads + 1
    /\ emitted' = <<Out("text", Prompt9, 0)>>
    /\ pc' = "rl_enter"
    /\ parsed' = <<>>
    /\ UNCHANGED <<input_line, sig, foreground_mode, pipeline, cmd_count, histVars,
                   termVars, line, len, pos, history_index, saved_line,
                   exitPath, recall, execVars>>

\* main.c:415: read_line returns a null pointer; strdup() of the static
\* buffer is taken to succeed, so it never does
EndOfSession(l) == l = NULL

\* main.c:417: strlen(input_line) == 0
IsEmptyLine_never(l) == FALSE

IsEmptyLine(l) == Len(l) = 0

\* main.c:415-420
MainCheck ==
    /\ pc = "main_check"
    /\ pc' = IF EndOfSession(input_line) THEN "shutdown"
             ELSE IF IsEmptyLine(input_line) THEN "prompt"
             ELSE "parse"
    /\ UNCHANGED <<input_line, reads, parsed, sig, foreground_mode, pipeline,
                   cmd_count,
                   histVars, termVars, editVars, execVars>>

\* main.c:422-425
MainParse ==
    /\ pc = "parse"
    /\ pipeline' = parse_pipeline(input_line)
    /\ cmd_count' = Len(pipeline')
    /\ pc' = IF cmd_count' = 0 THEN "prompt" ELSE "dispatch"
    \* main.c:423: free(input_line)
    /\ input_line' = <<>>
    /\ parsed' = input_line
    /\ UNCHANGED <<reads, sig, foreground_mode, histVars, termVars,
                   editVars, execVars>>

Builtins == {<<"c", "d">>, <<"h", "e", "l", "p">>,
             <<"h", "i", "s", "t", "o", "r", "y">>}

\* main.c:427-431: exit, a builtin (execute_builtin, main.c:65-89), or the
\* call of execute_pipeline (main.c:373-374)
MainDispatch ==
    /\ pc = "dispatch"
    /\ IF pipeline[1].args = <<>>
       THEN \* strcmp() on the null pointer args[0]
            /\ pc' = "crashed"
            /\ UNCHANGED <<listing, i, input_fd, kinds, run>>
       ELSE IF pipeline[1].args[1] = <<"e", "x", "i", "t">>
       THEN /\ pc' = "shutdown"
            /\ UNCHANGED <<listing, i, input_fd, kinds, run>>
       ELSE IF pipeline[1].args[1] \in Builtins
       THEN /\ pc' = "prompt"
            /\ listing' = IF pipeline[1].args[1] = <<"h", "i", "s", "t", "o", "r", "y">>
                          THEN show_history(history, history_count)
                          ELSE listing
            /\ UNCHANGED <<i, input_fd, kinds, run>>
       ELSE /\ pc' = "ep_loop"
            /\ i' = 0
            /\ input_fd' = STDIN_FILENO
            /\ kinds' \in KindChoices(cmd_count)
            /\ run' = [no |-> reads, pipes |-> 0, waits |-> 0, failed |-> FALSE,
                        fg0 |-> foreground_mode]
            /\ UNCHANGED listing
    /\ UNCHANGED <<input_line, reads, parsed, sig, foreground_mode, pipeline,
                   cmd_count,
                   history, history_count, submitted, lastCall, termVars,
                   editVars, fd, fds, procs>>

\* main.c:432, free_pipeline (main.c:358-370), and back to the loop head
MainFree ==
    /\ pc = "free"
    /\ pc' = "prompt"
    \* the strings of the stages are released; the locals of
    \* execute_pipeline ended with the call
    /\ pipeline' = <<>>
    /\ cmd_count' = 0
    /\ i' = 0 /\ input_fd' = STDIN_FILENO /\ fd' = [k \in 0 .. 1 |-> 0]
    /\ kinds' = <<>>
    /\ UNCHANGED <<input_line, reads, parsed, sig, foreground_mode, fds, procs, run,
                   histVars, termVars, editVars>>

\* main.c:436-440: the history is released and main returns
Shutdown ==
    /\ pc = "shutdown"
    /\ pc' = "exited"
    /\ history' = EmptyHistory
    /\ UNCHANGED <<input_line, reads, parsed, sig, foreground_mode, pipeline,
                   cmd_count,
                   history_count, listing, submitted, lastCall, termVars,
                   editVars, execVars>>

\* ------------------------------------------------------------------------
\* Initial states
\* ------------------------------------------------------------------------
\* main.c:26-28 and the locals of main before the loop
MainIdle ==
    /\ input_line = <<>>
    /\ reads = 0
    /\ foreground_mode = 1
    /\ pipeline = <<>>
    /\ cmd_count = 0
    /\ parsed = <<>>
    /\ sig = "idle"

HistoryIdle ==
    /\ history = EmptyHistory
    /\ history_count = 0
    /\ listing = <<>>
    /\ submitted = <<>>
    /\ lastCall = <<>>

TermIdle ==
    /\ term = CookedMode
    /\ orig_termios = CookedMode
    /\ enables = 0
    /\ restores = 0
    /\ stdinEof = FALSE

EditIdle ==
    /\ line = <<>>
    /\ len = 0
    /\ pos = 0
    /\ history_index = 0
    /\ saved_line = <<>>
    /\ emitted = <<>>
    /\ exitPath = "none"
    /\ recall = NoRecall("none")

ExecIdle ==
    /\ i = 0
    /\ input_fd = STDIN_FILENO
    /\ fd = [k \in 0 .. 1 |-> 0]
    /\ fds = StdTable
    /\ procs = NoProcs
    /\ kinds = <<>>
    /\ run = NoRun

\* ------------------------------------------------------------------------
\* Spec: the whole shell
\* ------------------------------------------------------------------------
\* the lines a user types in a session of the model; every key keeps the
\* buffer a prefix of one of them.  "exit" is not among them, so the
\* session never reaches Shutdown, which is left out of Next.
SessionLines ==
    {<<"a", "|", "a">>, <<"a", " ", "&">>, <<"c", "d">>, <<"&">>}

SessionChars == {"a", "c", "d", "|", "&", " "}

Buffers == UNION {{SubSeq(l, 1, n) : n \in 0 .. Len(l)} : l \in SessionLines}

Init ==
    /\ pc = "prompt"
    /\ MainIdle /\ HistoryIdle /\ TermIdle /\ EditIdle /\ ExecIdle

TypeSession ==
    \E c \in SessionChars :
        /\ pc = "rl_loop"
        /\ InsertAt(line, pos, len, c) \in Buffers
        /\ KeyPrintable(c)

EraseSession ==
    /\ pc = "rl_loop"
    /\ (pos > 0 /\ len > 0) => DeleteBefore(line, pos, len) \in Buffers
    /\ KeyBackspace

\* Up, pressed at most MaxUps times in a row
PressUp == recall.ups < MaxUps /\ KeyUp

ChildStep == \E p \in DOMAIN procs : ChildExec(p) \/ ChildExit(p)

Reap == \E p \in DOMAIN procs : EpReap(p)

Next ==
    \/ Prompt
    \/ ReadLineEnter
    \/ KeyEof
    \/ KeyEnter
    \/ KeyEscFail
    \/ PressUp
    \/ KeyDown
    \/ KeyRight
    \/ KeyLeft
    \/ EraseSession
    \/ TypeSession
    \/ KeyIgnored
    \/ ReadLineFinish
    \/ MainCheck
    \/ MainParse
    \/ MainDispatch
    \/ EpLoop
    \/ EpPipeFail
    \/ EpFork
    \/ EpClose
    \/ EpAfter
    \/ Reap
    \/ EpWaitDone
    \/ MainFree
    \/ ChildStep

Spec == Init /\ [][Next]_vars

\* ------------------------------------------------------------------------
\* HistSpec: the history store on its own
\* ------------------------------------------------------------------------
HistInit ==
    /\ pc = "history"
    /\ MainIdle /\ HistoryIdle /\ TermIdle /\ EditIdle /\ ExecIdle

\* a call add_to_history(cmd)
HistRecord(cmd) ==
    /\ pc = "history"
    /\ Len(submitted) < MAX_HISTORY + HistOver
    /\ LET h == add_to_history(history, history_count, cmd) IN
         /\ history' = h.history
         /\ history_count' = h.history_count
    /\ submitted' = IF Len(cmd) > 0 THEN Append(submitted, cmd) ELSE submitted
    /\ lastCall' = cmd
    /\ listing' = <<>>
    /\ UNCHANGED <<mainVars, termVars, editVars, execVars>>

RecordLine == HistRecord(LineFor(Len(submitted) + 1))

RecordEmpty == HistRecord(<<>>)

\* a call show_history()
HistShow ==
    /\ pc = "history"
    /\ listing' = show_history(history, history_count)
    /\ lastCall' = NULL
    /\ UNCHANGED <<history, history_count, submitted, mainVars, termVars,
                   editVars, execVars>>

HistNext == RecordLine \/ RecordEmpty \/ HistShow

HistSpec == HistInit /\ [][HistNext]_vars

\* ------------------------------------------------------------------------
\* EditSpec: one read_line call
\* ------------------------------------------------------------------------
EditChars == {"a", "b"}

\* earlier submissions a read_line call may find in the history
HistLines == {<<"a">>, <<"b", "a">>}

EditInit ==
    /\ pc = "rl_enter"
    /\ MainIdle /\ TermIdle /\ EditIdle /\ ExecIdle
    /\ \E n \in 0 .. MaxHist :
         \E h \in [0 .. (n - 1) -> HistLines] :
           /\ history = [k \in HistorySlots |-> IF k < n THEN h[k] ELSE NULL]
           /\ history_count = n
           /\ submitted = [k \in 1 .. n |-> h[k - 1]]
    /\ listing = <<>>
    /\ lastCall = <<>>

TypeEdit ==
    \E c \in EditChars :
        /\ len < MaxLen
        /\ KeyPrintable(c)

EditNext ==
    \/ ReadLineEnter
    \/ KeyEof
    \/ KeyEnter
    \/ KeyEscFail
    \/ PressUp
    \/ KeyDown
    \/ KeyRight
    \/ KeyLeft
    \/ KeyBackspace
    \/ TypeEdit
    \/ KeyIgnored
    \/ ReadLineFinish

EditSpec == EditInit /\ [][EditNext]_vars

\* ------------------------------------------------------------------------
\* ParseSpec: parse_pipeline on every short line
\* ------------------------------------------------------------------------
ParseChars == {"a", " ", "\t", "|", "&", "<", ">", "\""}

ParseLines ==
    UNION {[1 .. n -> ParseChars] : n \in 1 .. MaxLineLen}

\* s[1] sep s[2] sep ... s[n]
RECURSIVE Join(_, _)
Join(s, sep) ==
    IF Len(s) = 0 THEN <<>>
    ELSE IF Len(s) = 1 THEN s[1]
    ELSE s[1] \o sep \o Join(Tail(s), sep)

\* lines of up to MaxSegs segments between '|' signs: the k-th segment is
\* either the word LineFor(k) or a single space
SegmentLines ==
    UNION {{Join([k \in 1 .. n |-> IF w[k] THEN LineFor(k) ELSE <<" ">>],
                 <<"|">>) : w \in [1 .. n -> BOOLEAN]} : n \in 1 .. MaxSegs}

\* what may follow the program name of a stage: an argument, the three
\* redirections, the background sign, a quoted word, a quoted pair of words
Items ==
    {<<"b">>, <<"<", " ", "i">>, <<">", " ", "o">>, <<">", ">", " ", "o">>,
     <<"&">>, <<"\"", "q", "\"">>, <<"\"", "q", " ", "r", "\"">>}

\* lines whose last stage is the program a followed by up to MaxItems
\* items, alone or after a first stage c
ItemLines ==
    UNION {{Join(<<head \o <<"a">>>> \o its, <<" ">>) :
               its \in [1 .. n -> Items], head \in {<<>>, <<"c", "|">>}} :
           n \in 0 .. MaxItems}

ParseInit ==
    /\ pc = "parse"
    /\ input_line \in ParseLines \cup SegmentLines \cup ItemLines
    /\ reads = 1
    /\ foreground_mode = 1
    /\ pipeline = <<>>
    /\ cmd_count = 0
    /\ parsed = <<>>
    /\ sig = "idle"
    /\ HistoryIdle /\ TermIdle /\ EditIdle /\ ExecIdle

\* the parse, then the dispatch of what it returned (main.c:422-434)
ParseNext == MainParse \/ MainDispatch

ParseSpec == ParseInit /\ [][ParseNext]_vars

\* ------------------------------------------------------------------------
\* PipeSpec: one execute_pipeline call
\* ------------------------------------------------------------------------
\* a stage as the parser builds it for a program with optional redirections
Stage(in, out, bg) ==
    [args |-> << <<"a">> >>, input_file |-> in, output_file |-> out,
     append |-> 0, background |-> bg]

\* the pipelines execute_pipeline is called with: n stages, earlier stages
\* sharing one background flag, every stage with the same redirections
Pipelines ==
    {[k \in 1 .. n |-> Stage(in, out, IF k = n THEN last ELSE early)] :
        n \in 1 .. MaxStages,
        in \in {NULL, <<"i">>}, out \in {NULL, <<"o">>},
        last \in {0, 1}, early \in {0, 1}}

\* a child left running by an earlier background pipeline
Earlier(kind) ==
    [state |-> "running", fds |-> StdTable, run |-> 0, stage |-> 0,
     nstages |-> 1, kind |-> kind, cmd |-> NewCommand,
     input_fd |-> STDIN_FILENO, output_fd |-> STDOUT_FILENO, status |-> 0]

PipeInit ==
    /\ pc = "ep_loop"
    /\ input_line = <<>>
    /\ reads = 1
    /\ parsed = <<>>
    /\ sig = "idle"
    /\ pipeline \in Pipelines
    /\ cmd_count = Len(pipeline)
    /\ kinds \in KindChoices(cmd_count)
    /\ \/ foreground_mode = 1 /\ procs = NoProcs
       \/ /\ foreground_mode = 0
          /\ \E kind \in {"self", "forever"} : procs = [p \in {0} |-> Earlier(kind)]
    /\ i = 0
    /\ input_fd = STDIN_FILENO
    /\ fd = [k \in 0 .. 1 |-> 0]
    /\ fds = StdTable
    /\ run = [no |-> 1, pipes |-> 0, waits |-> 0, failed |-> FALSE,
               fg0 |-> foreground_mode]
    /\ HistoryIdle /\ TermIdle /\ EditIdle

PipeNext ==
    \/ EpLoop
    \/ EpPipeFail
    \/ EpFork
    \/ EpClose
    \/ EpAfter
    \/ Reap
    \/ EpWaitDone
    \/ MainFree
    \/ ChildStep

PipeSpec == PipeInit /\ [][PipeNext]_vars

\* the scheduler runs every process that can take a step, and the shell
\* itself; a failure of pipe() is never forced
PipeFairness ==
    /\ WF_vars(EpLoop)
    /\ WF_vars(EpFork)
    /\ WF_vars(EpClose)
    /\ WF_vars(EpAfter)
    /\ WF_vars(Reap)
    /\ WF_vars(EpWaitDone)
    /\ WF_vars(MainFree)
    /\ \A p \in 0 .. MaxStages : WF_vars(ChildExec(p)) /\ WF_vars(ChildExit(p))

FairPipeSpec == PipeSpec /\ PipeFairness

\* ------------------------------------------------------------------------
\* Properties
\* ------------------------------------------------------------------------

\* C1: when the terminal input ends while the edit buffer is empty, the
\* main loop ends the session; it does not come back to the prompt.
C1_EofEndsSession ==
    exitPath = "eof_empty" =>
        pc \in {"rl_exit", "main_check", "shutdown", "exited"}

\* the terminal attributes while a read_line call holds raw mode
RawOf(t) == [t EXCEPT !.icanon = FALSE, !.echo = FALSE]

InReadLoop == pc \in {"rl_loop", "rl_exit"}

\* C2: a read_line call enters raw mode once and restores the saved mode
\* exactly once before it returns, whichever way the read loop was left;
\* outside read_line the terminal is in the mode the shell found it in.
C2_RawModeScoped ==
    /\ InReadLoop =>
          enables = 1 /\ restores = 0 /\ term = RawOf(orig_termios)
    /\ pc = "main_check" =>
          enables = 1 /\ restores = 1 /\ term = orig_termios
    /\ ~InReadLoop => term = CookedMode

\* C2 witness: read_line has returned after a read failed inside an escape
\* sequence, with the terminal restored.
C2_Witness ==
    pc = "main_check" /\ exitPath = "escfail" /\ restores = 1 /\ term = CookedMode

\* the descriptors of child c that refer to pipes
PipeFds(c) == {n \in DOMAIN c.fds : c.fds[n].kind = "pipe"}

\* C3: a pipeline of k stages whose pipes could all be created has k-1
\* pipes, and a stage that has replaced its process image has the write
\* end of pipe i as standard output (i < k-1), the read end of pipe i-1 as
\* standard input (i > 0), and no other pipe descriptor.
C3_StageWiring ==
    /\ \A p \in DOMAIN procs :
          LET c == procs[p] IN
          c.state = "running" =>
             /\ c.stage < c.nstages - 1 =>
                   /\ STDOUT_FILENO \in DOMAIN c.fds
                   /\ c.fds[STDOUT_FILENO] = PipeEnd(c.run, c.stage, "w")
             /\ c.stage > 0 =>
                   /\ STDIN_FILENO \in DOMAIN c.fds
                   /\ c.fds[STDIN_FILENO] = PipeEnd(c.run, c.stage - 1, "r")
             /\ PipeFds(c) =
                   (IF c.stage > 0 THEN {STDIN_FILENO} ELSE {})
                   \cup (IF c.stage < c.nstages - 1 THEN {STDOUT_FILENO} ELSE {})
    /\ (pc \in {"ep_after", "ep_wait", "free"} /\ ~run.failed) =>
          run.pipes = cmd_count - 1

\* C3 witness: the middle stage of a three-stage pipeline is running.
C3_Witness ==
    \E p \in DOMAIN procs :
        /\ procs[p].state = "running"
        /\ procs[p].nstages = 3
        /\ procs[p].stage = 1

\* execute_pipeline is about to return to main
Returning == pc = "free"

\* C4 as stated: when execute_pipeline returns, the last stage's flag alone
\* tells whether it waited: unset, no child is left and the foreground
\* flag is 1; set, it did not wait and the flag is 0.
C4_WaitByLastFlag ==
    Returning =>
        IF pipeline[cmd_count].background = 0
        THEN DOMAIN procs = {} /\ foreground_mode = 1
        ELSE run.waits = 0 /\ foreground_mode = 0

\* C4 amended: the above when every pipe could be created; when pipe()
\* fails execute_pipeline returns without waiting and leaves the flag as
\* it was.
C4_WaitByLastFlagUnlessPipeFails ==
    Returning =>
        IF run.failed
        THEN run.waits = 0 /\ foreground_mode = run.fg0
        ELSE IF pipeline[cmd_count].background = 0
             THEN DOMAIN procs = {} /\ foreground_mode = 1
             ELSE run.waits = 0 /\ foreground_mode = 0

\* C4 witness: a pipeline whose first stage carries the background flag and
\* whose last stage does not has been waited for.
C4_Witness ==
    /\ Returning /\ ~run.failed
    /\ cmd_count >= 2
    /\ pipeline[1].background = 1
    /\ pipeline[cmd_count].background = 0
    /\ run.waits = 1

\* a foreground pipeline is being started whose first program ends by
\* itself and whose other programs end at end-of-stream
ForegroundStart ==
    /\ pc = "ep_loop" /\ i = 0
    /\ pipeline[cmd_count].background = 0
    /\ kinds[1] = "self"
    /\ \A k \in 2 .. cmd_count : kinds[k] = "eof"

\* once the shell has closed its copy, only the writer stage of a pipe
\* holds its write end: when that stage is gone the write end is closed
NoStaleWriter ==
    \A k \in 0 .. (cmd_count - 2) :
        (/\ k < i
         /\ ~\E p \in DOMAIN procs :
               /\ procs[p].run = run.no /\ procs[p].stage = k
               /\ procs[p].state # "zombie")
        => ~WriterOpen(run.no, k)

\* C5 as stated: such a pipeline always comes back to the prompt.
C5_ForegroundReturns == ForegroundStart ~> (pc = "prompt")

\* C5 amended: it comes back to the prompt provided the children left by
\* earlier background pipelines end as well (the wait is for every child),
\* and no write end outlives its writer stage.
C5_ForegroundReturnsIfOthersEnd ==
    /\ [] NoStaleWriter
    /\ (ForegroundStart /\ \A p \in DOMAIN procs : procs[p].kind # "forever")
          ~> (pc = "prompt")

\* C5 witness: a foreground pipeline of at least two stages has been
\* waited for and is returning.
C5_Witness ==
    /\ Returning /\ ~run.failed /\ run.waits = 1
    /\ cmd_count >= 2
    /\ pipeline[cmd_count].background = 0
    /\ kinds[1] = "self"
    /\ DOMAIN procs = {}

\* what the history listing is to show after the recorded lines
ExpectedListing ==
    LET n == Len(submitted)
        m == Min(n, MAX_HISTORY)
    IN  [k \in 1 .. m |-> <<k, submitted[n - m + k]>>]

\* C6: show_history prints the min(n, capacity) most recent lines, oldest
\* first, numbered 1, 2, ..., min(n, capacity).
C6_ListingRecent == listing # <<>> => listing = ExpectedListing

\* C7: slots 0 .. min(n, capacity)-1 hold the most recent non-empty lines
\* in submission order, the other slots are unused, and the counter counts
\* the non-empty lines (an empty line changes nothing).
C7_BufferHoldsRecent ==
    LET n == Len(submitted)
        m == Min(n, MAX_HISTORY)
    IN  /\ history_count = n
        /\ \A k \in HistorySlots :
              history[k] = IF k < m THEN submitted[n - m + k + 1] ELSE NULL

\* C7 witness: an empty line was recorded after the buffer overflowed twice.
C7_Witness ==
    /\ Len(submitted) = MAX_HISTORY + 2
    /\ lastCall = <<>>
    /\ history[0] = LineFor(3)

\* C8: with an empty history Up changes nothing and prints nothing; with a
\* non-empty history, k Ups from the draft followed by at least k Downs
\* leave the buffer and its length as they were before the first Up.
C8_UpDownRestores ==
    /\ [] ((recall.phase = "down" /\ recall.downs >= recall.ups) =>
              (line = recall.line /\ len = recall.len))
    /\ [][(pc = "rl_loop" /\ history_count = 0 /\ recall'.key = "up") =>
              (/\ UNCHANGED <<line, len, pos, history_index>>
               /\ emitted' = <<>>)]_vars

\* C8 witness: two Ups through a history of two entries and two Downs have
\* brought back a non-empty draft.
C8_Witness ==
    /\ pc = "rl_loop"
    /\ history_count = 2
    /\ recall.phase = "down" /\ recall.ups = 2 /\ recall.downs = 2
    /\ Len(recall.line) > 0
    /\ line = recall.line

\* Enter was pressed on an empty buffer and main has not yet reached the
\* next prompt
EmptySubmit ==
    /\ exitPath = "enter"
    /\ \/ pc = "rl_exit" /\ Len(line) = 0
       \/ pc = "main_check" /\ Len(input_line) = 0

\* C9: an empty line changes neither the history nor its counter, is not
\* parsed, runs no builtin, creates no process and leaves the foreground
\* flag alone; main goes straight to the next prompt.
C9_EmptyLineNoEffect ==
    [][EmptySubmit =>
          /\ UNCHANGED <<history, history_count, submitted, foreground_mode,
                         pipeline, cmd_count, listing, run, fds>>
          /\ DOMAIN procs' \subseteq DOMAIN procs
          /\ pc = "rl_exit" => pc' \in {"rl_exit", "main_check"}
          /\ pc = "main_check" => pc' \in {"main_check", "prompt"}]_vars

\* C9 witness: an empty line was returned to main while the history holds
\* an earlier line.
C9_Witness ==
    /\ pc = "main_check" /\ exitPath = "enter"
    /\ Len(input_line) = 0
    /\ history_count = 1

\* C10: every stage parse_pipeline returns has a program name.
C10_StagesHaveProgram ==
    \A k \in 1 .. Len(pipeline) : Len(pipeline[k].args) >= 1

\* ------------------------------------------------------------------------
\* C11
\* ------------------------------------------------------------------------
\* the pieces of l between its '|' signs, in order
RECURSIVE Segments(_)
Segments(l) ==
    IF \A k \in 1 .. Len(l) : l[k] # "|" THEN <<l>>
    ELSE LET cut == CHOOSE k \in 1 .. Len(l) :
                        l[k] = "|" /\ \A j \in 1 .. (k - 1) : l[j] # "|"
         IN  <<SubSeq(l, 1, cut - 1)>> \o Segments(SubSeq(l, cut + 1, Len(l)))

HasText(s) == \E k \in 1 .. Len(s) : s[k] # " "

\* the segments that are not empty once their spaces are cut
NonEmptySegments(l) == SelectSeq(Segments(l), HasText)

\* one stage per non-empty segment, each parsed by itself, the first
\* MAX_PIPES of them
StagesOf(l) ==
    LET segs == NonEmptySegments(l)
    IN  [k \in 1 .. Min(Len(segs), MAX_PIPES) |-> parse_pipeline(segs[k])[1]]

RECURSIVE Words(_)
Words(s) ==
    IF Len(s) = 0 THEN <<>>
    ELSE IF s[1] \in Blank THEN Words(Tail(s))
    ELSE LET ends == {k \in 1 .. Len(s) : k = Len(s) \/ s[k + 1] \in Blank}
             e == CHOOSE k \in ends : \A j \in ends : k <= j
         IN  <<SubSeq(s, 1, e)>> \o Words(SubSeq(s, e + 1, Len(s)))

\* the words of the last stage of l
FinalWords(l) ==
    LET segs == NonEmptySegments(l)
    IN  IF Len(segs) = 0 \/ Len(segs) > MAX_PIPES THEN <<>>
        ELSE Words(segs[Len(segs)])

EndsWithAmp(l) ==
    LET w == FinalWords(l) IN Len(w) > 0 /\ w[Len(w)] = <<"&">>

\* C12: when the last word of the final stage is "&", the final stage has
\* its background flag set and no argument "&", whatever redirections the
\* stage holds, and execute_pipeline will not wait
C12_TrailingAmpBackground ==
    (pc # "parse" /\ EndsWithAmp(parsed) /\ cmd_count > 0) =>
        /\ pipeline[cmd_count].background = 1
        /\ \A k \in 1 .. Len(pipeline[cmd_count].args) :
               pipeline[cmd_count].args[k] # <<"&">>
        /\ ~WaitsFor(pipeline, cmd_count)

\* ------------------------------------------------------------------------
\* C13
\* ------------------------------------------------------------------------
RedirectionWords == {<<"<">>, <<">">>, <<">", ">">>}

\* the word after the first word of w that is in ops, NULL when there is none
FileAfter(w, ops) ==
    LET at == {k \in 1 .. (Len(w) - 1) : w[k] \in ops}
    IN  IF at = {} THEN NULL
        ELSE w[(CHOOSE k \in at : \A j \in at : k <= j) + 1]

\* the words of w that are neither an operator nor the file name after one
RECURSIVE PlainWords(_)
PlainWords(w) ==
    IF Len(w) = 0 THEN <<>>
    ELSE IF w[1] \in RedirectionWords THEN
        PlainWords(SubSeq(w, Min(3, Len(w) + 1), Len(w)))
    ELSE IF w[1] = <<"&">> THEN PlainWords(Tail(w))
    ELSE <<w[1]>> \o PlainWords(Tail(w))

\* w holds one input and one output redirection, each with a file name,
\* and no quote
BothRedirections(w) ==
    /\ Len(w) > 0 /\ w[1] \notin RedirectionWords
    /\ \A k \in 1 .. Len(w) : \A j \in 1 .. Len(w[k]) : w[k][j] # "\""
    /\ \A k \in 1 .. Len(w) : w[k] \in RedirectionWords =>
          k < Len(w) /\ w[k + 1] \notin RedirectionWords \cup {<<"&">>}
    /\ Cardinality({k \in 1 .. Len(w) : w[k] = <<"<">>}) = 1
    /\ Cardinality({k \in 1 .. Len(w) : w[k] \in {<<">">>, <<">", ">">>}}) = 1

\* C13: a stage written with both an input and an output redirection, in
\* either order, has both files, the append flag of its output operator,
\* and the remaining words as its arguments, in order
C13_BothRedirections ==
    (pc # "parse" /\ BothRedirections(FinalWords(parsed)) /\ cmd_count > 0) =>
        LET w == FinalWords(parsed)
            st == pipeline[cmd_count]
        IN  /\ st.input_file = FileAfter(w, {<<"<">>})
            /\ st.output_file = FileAfter(w, {<<">">>, <<">", ">">>})
            /\ st.append = (IF \E k \in 1 .. Len(w) : w[k] = <<">", ">">>
                            THEN 1 ELSE 0)
            /\ st.args = PlainWords(w)

\* ------------------------------------------------------------------------
\* C14
\* ------------------------------------------------------------------------
\* the stages of the current execute_pipeline call are still in pipeline[]
PipelineHeld == pc \in {"ep_loop", "ep_fork", "ep_close", "ep_after",
                        "ep_wait", "free"}

\* C14: in a stage that has replaced its process image, a pipe end handed
\* to the stage is its standard input or output even when the stage names
\* a file for it; the input file of the first stage and the output file of
\* the last stage are their standard input and standard output
C14_PipesOverFiles ==
    PipelineHeld =>
      \A p \in DOMAIN procs :
        LET c == procs[p] IN
        (c.state = "running" /\ c.run = run.no) =>
          LET st == pipeline[c.stage + 1] IN
          /\ c.stage > 0 =>
                c.fds[STDIN_FILENO] = PipeEnd(c.run, c.stage - 1, "r")
          /\ c.stage < c.nstages - 1 =>
                c.fds[STDOUT_FILENO] = PipeEnd(c.run, c.stage, "w")
          /\ (c.stage = 0 /\ st.input_file # NULL) =>
                c.fds[STDIN_FILENO] = File(st.input_file, "r")
          /\ (c.stage = c.nstages - 1 /\ st.output_file # NULL) =>
                c.fds[STDOUT_FILENO] = File(st.output_file, "w")

\* a middle stage that names both files runs on its two pipe ends, and a
\* last stage that names an output file runs on that file
C14_Witness ==
    /\ PipelineHeld
    /\ \E p, q \in DOMAIN procs :
          /\ procs[p].state = "running" /\ procs[p].run = run.no
          /\ procs[p].stage = 1 /\ procs[p].nstages = 3
          /\ pipeline[2].input_file # NULL /\ pipeline[2].output_file # NULL
          /\ procs[q].state = "running" /\ procs[q].run = run.no
          /\ procs[q].stage = 2
          /\ procs[q].fds[STDOUT_FILENO] = File(pipeline[3].output_file, "w")

\* ------------------------------------------------------------------------
\* C15
\* ------------------------------------------------------------------------
\* the child p leaves by exit(EXIT_FAILURE) in this step
FailsNow(p) ==
    /\ p \in DOMAIN procs /\ procs[p].state = "forked"
    /\ p \in DOMAIN procs' /\ procs'[p].state = "zombie"

\* the failure of a child changes that child only, and its status is not 0
FailureTouchesChildOnly ==
    \A p \in DOMAIN procs :
        FailsNow(p) =>
            /\ procs'[p].status # 0
            /\ DOMAIN procs' = DOMAIN procs
            /\ \A q \in DOMAIN procs \ {p} : procs'[q] = procs[q]
            /\ UNCHANGED <<mainVars, histVars, termVars, editVars,
                           i, input_fd, fd, fds, kinds, run>>

\* a stage of the current pipeline has failed
FailedStage ==
    \E p \in DOMAIN procs :
        /\ procs[p].run = run.no
        /\ procs[p].state = "zombie" /\ procs[p].status # 0

\* the stages of the current pipeline that have a process
Spawned == {procs[p].stage : p \in {q \in DOMAIN procs : procs[q].run = run.no}}

\* while the stage loop runs every stage it has passed has been spawned,
\* and next to a failed stage the running stages hold their usual pipe ends
SiblingsUnaffected ==
    /\ pc \in {"ep_loop", "ep_fork", "ep_after"} => Spawned = 0 .. (i - 1)
    /\ pc = "ep_close" => Spawned = 0 .. i
    /\ FailedStage =>
          \A q \in DOMAIN procs :
              (procs[q].run = run.no /\ procs[q].state = "running") =>
                  PipeFds(procs[q]) =
                      (IF procs[q].stage > 0 THEN {STDIN_FILENO} ELSE {})
                      \cup (IF procs[q].stage < procs[q].nstages - 1
                            THEN {STDOUT_FILENO} ELSE {})

\* every program of the pipeline, and every child left by an earlier
\* pipeline, ends: the first by itself, the others at end of input
OthersEnd ==
    /\ \A p \in DOMAIN procs : procs[p].kind # "forever"
    /\ \A k \in DOMAIN kinds :
          IF k = 1 THEN kinds[k] = "self" ELSE kinds[k] # "forever"

\* C15 as stated: a stage that cannot open its file or load its program
\* ends alone with a nonzero status, every other stage is spawned with its
\* usual wiring, the shell's own state is untouched, and the shell comes
\* back to the prompt.
C15_FailureIsolated ==
    /\ [][FailureTouchesChildOnly]_vars
    /\ [] SiblingsUnaffected
    /\ FailedStage ~> (pc = "prompt")

\* C15 amended: the shell comes back to the prompt provided every other
\* child of the shell ends.
C15_FailureIsolatedIfOthersEnd ==
    /\ [][FailureTouchesChildOnly]_vars
    /\ [] SiblingsUnaffected
    /\ (FailedStage /\ OthersEnd) ~> (pc = "prompt")

\* the first stage of a pipeline has failed while the second one runs on
\* the pipe between them
C15_Witness ==
    \E p, q \in DOMAIN procs :
        /\ procs[p].run = run.no /\ procs[p].stage = 0
        /\ procs[p].state = "zombie" /\ procs[p].status # 0
        /\ procs[q].run = run.no /\ procs[q].stage = 1
        /\ procs[q].state = "running"
        /\ procs[q].fds[STDIN_FILENO] = PipeEnd(run.no, 0, "r")

\* ------------------------------------------------------------------------
\* C16
\* ------------------------------------------------------------------------
\* the first position after position 1 of s that holds a quote, 0 if none
ClosingQuote(s) ==
    LET at == {k \in 2 .. Len(s) : s[k] = "\""}
    IN  IF at = {} THEN 0 ELSE CHOOSE k \in at : \A j \in at : k <= j

\* the arguments a reader of the line expects: words between blanks, and
\* the text between a pair of quotes as one word
RECURSIVE QuotedWords(_)
QuotedWords(s) ==
    IF Len(s) = 0 THEN <<>>
    ELSE IF s[1] \in Blank THEN QuotedWords(Tail(s))
    ELSE IF s[1] = "\"" /\ ClosingQuote(s) # 0 THEN
        <<SubSeq(s, 2, ClosingQuote(s) - 1)>>
            \o QuotedWords(SubSeq(s, ClosingQuote(s) + 1, Len(s)))
    ELSE LET ends == {k \in 1 .. Len(s) : k = Len(s) \/ s[k + 1] \in Blank}
             e == CHOOSE k \in ends : \A j \in ends : k <= j
         IN  <<SubSeq(s, 1, e)>> \o QuotedWords(SubSeq(s, e + 1, Len(s)))

\* the text of the last stage of l
FinalSegment(l) ==
    LET segs == NonEmptySegments(l)
    IN  IF Len(segs) = 0 \/ Len(segs) > MAX_PIPES THEN <<>>
        ELSE segs[Len(segs)]

\* s holds a quoted span and nothing but plain words around it: every
\* quote opens at the start of a word or closes at the end of one, the
\* quotes pair up, and no word is an operator
QuotedSegment(s) ==
    LET q == {k \in 1 .. Len(s) : s[k] = "\""}
        opens(k) == Cardinality({j \in q : j < k}) % 2 = 0
    IN  /\ q # {}
        /\ Cardinality(q) % 2 = 0
        /\ \A k \in q :
              IF opens(k) THEN k = 1 \/ s[k - 1] \in Blank
              ELSE k = Len(s) \/ s[k + 1] \in Blank
        /\ \A k \in 1 .. Len(s) : s[k] \notin {"<", ">", "&"}

\* C16: in a stage with a quoted span, closed in the same word or in a
\* later one, the span is one argument, the text between the quotes; the
\* stage has one argument per plain word and one per span
C16_QuotedSpanOneArgument ==
    (pc # "parse" /\ QuotedSegment(FinalSegment(parsed)) /\ cmd_count > 0) =>
        pipeline[cmd_count].args = QuotedWords(FinalSegment(parsed))

\* ------------------------------------------------------------------------
\* SigSpec: SIGINT between the steps of the prompt and of read_line
\* ------------------------------------------------------------------------
\* main.c:406-408: the handler is installed with an empty mask, so it can
\* start between any two steps of the main flow, also inside a call of the
\* output library; SIGINT itself stays blocked while the handler runs.
\* main.c:92: the handler starts and is about to test foreground_mode
SigintEnter ==
    /\ sig = "idle"
    /\ pc \in {"prompt", "prompt_io", "rl_enter", "rl_loop", "rl_exit",
              "main_check"}
    /\ sig' = "test"
    /\ UNCHANGED <<pc, input_line, reads, parsed, foreground_mode, pipeline,
                   cmd_count, histVars, termVars, editVars, execVars>>

\* main.c:92-94: foreground_mode is set, the handler is inside printf/fflush
SigintPrint ==
    /\ sig = "test"
    /\ foreground_mode # 0
    /\ sig' = "stdio"
    /\ UNCHANGED <<pc, input_line, reads, parsed, foreground_mode, pipeline,
                   cmd_count, histVars, termVars, editVars, execVars>>

\* main.c:95-96: the handler returns and the main flow resumes
SigintReturn ==
    /\ \/ sig = "stdio"
       \/ sig = "test" /\ foreground_mode = 0
    /\ sig' = "idle"
    /\ emitted' = IF sig = "stdio"
                  THEN <<Out("text", <<"\n">> \o Prompt9, 0)>>
                  ELSE emitted
    /\ UNCHANGED <<pc, input_line, reads, parsed, foreground_mode, pipeline,
                   cmd_count, histVars, termVars, line, len, pos,
                   history_index, saved_line, exitPath, recall, execVars>>

\* the main flow runs only while no handler is on its stack
MainRuns == sig = "idle"

\* main.c:411: the main flow enters printf
PromptBegin ==
    /\ MainRuns
    /\ pc = "prompt"
    /\ reads < MaxReads
    /\ pc' = "prompt_io"
    /\ UNCHANGED <<input_line, reads, parsed, sig, foreground_mode, pipeline,
                   cmd_count, histVars, termVars, editVars, execVars>>

\* main.c:411-412: printf and fflush have returned
PromptEnd ==
    /\ MainRuns
    /\ pc = "prompt_io"
    /\ reads' = reads + 1
    /\ emitted' = <<Out("text", Prompt9, 0)>>
    /\ pc' = "rl_enter"
    /\ parsed' = <<>>
    /\ UNCHANGED <<input_line, sig, foreground_mode, pipeline, cmd_count,
                   histVars, termVars, line, len, pos, history_index,
                   saved_line, exitPath, recall, execVars>>

SigReadLineEnter == MainRuns /\ ReadLineEnter

SigType == MainRuns /\ TypeEdit

SigBackspace == MainRuns /\ KeyBackspace

SigEnter == MainRuns /\ KeyEnter

SigEof == MainRuns /\ KeyEof

SigReadLineFinish == MainRuns /\ ReadLineFinish

SigMainCheck == MainRuns /\ MainCheck

\* the flag is 1 at startup and after a foreground pipeline, 0 after a
\* background one (main.c:26, 397, 399)
SigInit ==
    /\ pc = "prompt"
    /\ input_line = <<>>
    /\ reads = 0
    /\ foreground_mode \in {0, 1}
    /\ pipeline = <<>>
    /\ cmd_count = 0
    /\ parsed = <<>>
    /\ sig = "idle"
    /\ HistoryIdle /\ TermIdle /\ EditIdle /\ ExecIdle

SigNext ==
    \/ SigintEnter
    \/ SigintPrint
    \/ SigintReturn
    \/ PromptBegin
    \/ PromptEnd
    \/ SigReadLineEnter
    \/ SigType
    \/ SigBackspace
    \/ SigEnter
    \/ SigEof
    \/ SigReadLineFinish
    \/ SigMainCheck

SigSpec == SigInit /\ [][SigNext]_vars

\* ------------------------------------------------------------------------
\* C17
\* ------------------------------------------------------------------------
\* the main flow is inside a call of the output library
MainInStdio == pc = "prompt_io"

\* C17: the handler is never inside a buffered-output call on standard
\* output while the main flow it interrupted is inside one
C17_HandlerAvoidsStdio == ~(sig = "stdio" /\ MainInStdio)

\* ------------------------------------------------------------------------
\* C18
\* ------------------------------------------------------------------------
\* the strings of one stage that parse_pipeline took from strdup
StageStrings(st) ==
    Len(st.args) + (IF st.input_file # NULL THEN 1 ELSE 0)
                 + (IF st.output_file # NULL THEN 1 ELSE 0)

RECURSIVE StringsIn(_)
StringsIn(cmds) ==
    IF Len(cmds) = 0 THEN 0
    ELSE StageStrings(cmds[1]) + StringsIn(Tail(cmds))

\* the strings of the last parse that free_pipeline has not released
LiveAllocations == StringsIn(pipeline)

\* C18: at every prompt no string allocated by parse_pipeline is live
C18_NoLiveAllocationAtPrompt == pc = "prompt" => LiveAllocations = 0

\* ------------------------------------------------------------------------
\* RecallSpec: read_line over a history that has reached its capacity
\* ------------------------------------------------------------------------
\* the store after the lines LineFor(1) .. LineFor(n) were recorded, for
\* n >= MAX_HISTORY: add_to_history has kept the last MAX_HISTORY lines,
\* oldest in slot 0, and counted every line (main.c:46-55)
HistoryAfter(n) ==
    [history |-> [k \in HistorySlots |-> LineFor(n - MAX_HISTORY + k + 1)],
     history_count |-> n]

RecallInit ==
    /\ pc = "rl_enter"
    /\ MainIdle /\ TermIdle /\ EditIdle /\ ExecIdle
    /\ \E n \in MAX_HISTORY .. (MAX_HISTORY + EditOver) :
         /\ history = HistoryAfter(n).history
         /\ history_count = HistoryAfter(n).history_count
         /\ submitted = [k \in 1 .. n |-> LineFor(k)]
    /\ listing = <<>>
    /\ lastCall = <<>>

\* one character of a draft
TypeDraft == len = 0 /\ KeyPrintable("a")

RecallNext ==
    \/ ReadLineEnter
    \/ TypeDraft
    \/ PressUp
    \/ KeyDown
    \/ KeyBackspace
    \/ KeyEnter
    \/ ReadLineFinish

RecallSpec == RecallInit /\ [][RecallNext]_vars

\* ------------------------------------------------------------------------
\* C19
\* ------------------------------------------------------------------------
\* the number of entries the store holds
Stored == Min(history_count, MAX_HISTORY)

\* C19: however many lines were recorded, during recall the browse index
\* stays within 0 .. Stored, the entry read lies at a position within
\* 0 .. Stored - 1, and the k-th Up in a row from browse index 0 loads the
\* k-th most recently recorded line
C19_RecallWithinStore ==
    pc \in {"rl_loop", "crashed"} =>
        /\ history_index \in 0 .. Stored
        /\ (recall.key \in {"up", "down"} /\ history_index > 0) =>
              RecallIndex(history_index) \in 0 .. (Stored - 1)
        /\ (recall.key = "up" /\ recall.phase = "up"
            /\ recall.ups \in 1 .. Stored) =>
              line = submitted[Len(submitted) - recall.ups + 1]

\* ------------------------------------------------------------------------
\* C20
\* ------------------------------------------------------------------------
\* the descriptors of the shell that are ends of a pipe
ShellPipeFds == {n \in DOMAIN fds : fds[n].kind = "pipe"}

\* C20: when execute_pipeline returns, after the last stage or after a
\* failed pipe(), the shell holds no end of a pipe, and at the prompt its
\* descriptors are those it started with
C20_NoPipeLeftOpen ==
    /\ Returning => ShellPipeFds = {}
    /\ pc = "prompt" => fds = StdTable

\* ------------------------------------------------------------------------
\* C21
\* ------------------------------------------------------------------------
\* C21: a non-empty line that read_line has returned to main is the newest
\* entry of the history store, whichever way the read loop was left
C21_ReturnedLineIsNewest ==
    (pc = "main_check" /\ input_line # NULL /\ Len(input_line) > 0) =>
        /\ history_count > 0
        /\ history[Stored - 1] = input_line

\* ------------------------------------------------------------------------
\* BufferSpec: the keys of read_line on an empty and on an almost full buffer
\* ------------------------------------------------------------------------
\* read_line is in its loop, raw mode is on, one line is in the history,
\* and the user has typed nothing or MAX_CMD_LEN - 2 characters
BufferInit ==
    /\ pc = "rl_loop"
    /\ input_line = <<>>
    /\ reads = 1
    /\ foreground_mode = 1
    /\ pipeline = <<>>
    /\ cmd_count = 0
    /\ parsed = <<>>
    /\ sig = "idle"
    /\ history = [k \in HistorySlots |-> IF k = 0 THEN <<"b">> ELSE NULL]
    /\ history_count = 1
    /\ listing = <<>>
    /\ submitted = << <<"b">> >>
    /\ lastCall = <<"b">>
    /\ term = enableRawMode(CookedMode).term
    /\ orig_termios = enableRawMode(CookedMode).orig_termios
    /\ enables = 1
    /\ restores = 0
    /\ stdinEof = FALSE
    /\ \E n \in {0, MAX_CMD_LEN - 2} :
         /\ line = [k \in 1 .. n |-> "a"]
         /\ len = n
         /\ pos = n
         /\ emitted = IF n = 0 THEN <<>> ELSE Redraw(line) \o MoveTo(n)
         /\ recall = IF n = 0 THEN NoRecall("none") ELSE NoRecall("char")
    /\ history_index = 0
    /\ saved_line = <<>>
    /\ exitPath = "none"
    /\ ExecIdle

\* the keys keep length and cursor within MaxLen of either end of the buffer
TypeBuffer ==
    /\ len < MaxLen \/ len >= MAX_CMD_LEN - 1 - MaxLen
    /\ KeyPrintable("a")

EraseBuffer ==
    /\ len <= MaxLen \/ len > MAX_CMD_LEN - 1 - MaxLen
    /\ KeyBackspace

LeftBuffer ==
    /\ pos <= MaxLen \/ pos > MAX_CMD_LEN - 1 - MaxLen
    /\ KeyLeft

BufferNext ==
    \/ TypeBuffer
    \/ EraseBuffer
    \/ LeftBuffer
    \/ KeyRight
    \/ PressUp
    \/ KeyDown

BufferSpec == BufferInit /\ [][BufferNext]_vars

\* ------------------------------------------------------------------------
\* C22
\* ------------------------------------------------------------------------
\* cursor, length and buffer agree
BufferInBounds ==
    /\ 0 <= pos /\ pos <= len /\ len <= MAX_CMD_LEN - 1
    /\ Len(line) = len

\* Left and Right move the cursor by one within the buffer and change
\* neither the buffer nor its length
ArrowMovesCursorOnly ==
    (pc = "rl_loop" /\ recall'.key \in {"left", "right"}) =>
        /\ line' = line /\ len' = len
        /\ pos' \in {pos - 1, pos, pos + 1}
        /\ recall'.key = "left" => pos' = (IF pos > 0 THEN pos - 1 ELSE pos)
        /\ recall'.key = "right" => pos' = (IF pos < len THEN pos + 1 ELSE pos)
        /\ pos' \in 0 .. len

\* C22: after any keys of read_line, 0 <= cursor <= length <= MAX_CMD_LEN - 1
\* and the buffer holds exactly length characters before its terminator;
\* Left and Right change the cursor only, by one, within 0 .. length
C22_BufferInvariant ==
    /\ [] (pc = "rl_loop" => BufferInBounds)
    /\ [][ArrowMovesCursorOnly]_vars

\* a character was refused by a full buffer, with the cursor inside it
C22_Witness ==
    /\ pc = "rl_loop"
    /\ len = MAX_CMD_LEN - 1
    /\ pos < len
    /\ recall.key = "char"
    /\ emitted = <<>>

\* ------------------------------------------------------------------------
\* C23
\* ------------------------------------------------------------------------
\* the terminal line after text t is written at column c over old
Overwrite(old, c, t) ==
    [k \in 1 .. (IF Len(old) > c - 1 + Len(t) THEN Len(old) ELSE c - 1 + Len(t)) |->
        IF k >= c /\ k < c + Len(t) THEN t[k - c + 1]
        ELSE IF k <= Len(old) THEN old[k] ELSE " "]

\* the terminal's current line and cursor column (1-based) after one write
Show(scr, o) ==
    IF o.op = "EL2" THEN [scr EXCEPT !.text = <<>>]
    ELSE IF o.op = "CR" THEN [scr EXCEPT !.col = 1]
    ELSE IF o.op = "CHA" THEN [scr EXCEPT !.col = o.n]
    ELSE IF o.op = "CUF" THEN [scr EXCEPT !.col = @ + o.n]
    ELSE IF o.op = "CUB" THEN [scr EXCEPT !.col = IF @ > o.n THEN @ - o.n ELSE 1]
    ELSE [text |-> Overwrite(scr.text, scr.col, o.text),
          col |-> scr.col + Len(o.text)]

\* ... and after a sequence of writes
RECURSIVE Render(_, _)
Render(scr, ops) ==
    IF Len(ops) = 0 THEN scr ELSE Render(Show(scr, ops[1]), Tail(ops))

\* the display the buffer and the cursor offset call for
Displayed(l, p) == [text |-> Prompt9 \o l, col |-> Len(Prompt9) + p + 1]

\* a handler that redrew the line left the prompt, the buffer and the
\* cursor on the terminal whatever was there before
RedrawShowsBuffer ==
    (/\ pc = "rl_loop"
     /\ recall.key \in {"char", "backspace", "up", "down"}
     /\ emitted # <<>>) =>
        \A before \in {Displayed(<<>>, 0), Displayed(<<"a", "b">>, 1)} :
            Render(before, emitted) = Displayed(line, pos)

\* Left and Right leave the text and move the terminal cursor as they move
\* the cursor offset
ArrowMovesDisplay ==
    (pc = "rl_loop" /\ recall'.key \in {"left", "right"}) =>
        Render(Displayed(line, pos), emitted') = Displayed(line', pos')

\* C23: after an insert, Backspace, Left, Right, Up or Down the terminal
\* line shows the prompt and the buffer, and the terminal cursor is at
\* column prompt length + cursor offset + 1
C23_DisplayFollowsBuffer ==
    /\ [] RedrawShowsBuffer
    /\ [][ArrowMovesDisplay]_vars

\* ------------------------------------------------------------------------
\* TokSpec: parse_pipeline of src/unnamed/part_000 and src/unnamed/part_001
\* ------------------------------------------------------------------------
\* Both variants split the line on '|' and each segment on blanks with
\* strtok, which keeps one save pointer for the whole process: here it is
\* threaded through every call as save.
TokBlank == {" ", "\t", "\n"}

\* part_000:102-117 (part_001:103-118), the argument loop after args[0];
\* the Command built, the buffer and the save pointer it leaves
RECURSIVE TokArgLoop(_, _, _)
TokArgLoop(B, save, cmd) ==
    LET t == strtok_r(B, save, TokBlank) IN
    IF t.tok = 0 THEN [cmd |-> cmd, buf |-> t.buf, save |-> t.save]
    ELSE
      LET s == CStr(t.buf, t.tok) IN
      IF s = <<">">> \/ s = <<">", ">">> THEN
          LET f == strtok_r(t.buf, t.save, TokBlank) IN
          [cmd |-> [cmd EXCEPT
                       !.output_file = IF f.tok = 0 THEN NULL
                                       ELSE CStr(f.buf, f.tok),
                       !.append = IF s = <<">", ">">> THEN 1 ELSE 0],
           buf |-> f.buf, save |-> f.save]
      ELSE IF s = <<"<">> THEN
          LET f == strtok_r(t.buf, t.save, TokBlank) IN
          TokArgLoop(f.buf, f.save,
                     [cmd EXCEPT !.input_file = IF f.tok = 0 THEN NULL
                                                ELSE CStr(f.buf, f.tok)])
      ELSE IF s = <<"&">> THEN
          TokArgLoop(t.buf, t.save, [cmd EXCEPT !.background = 1])
      ELSE
          TokArgLoop(t.buf, t.save, [cmd EXCEPT !.args = Append(@, s)])

\* part_000:121 (part_001:122): strtok(NULL, "|") continues from the one
\* save pointer, which the argument loop has moved
NextSegment(B, save) == strtok_r(B, save, {"|"})

\* part_000:87-122 (part_001:92-123), the segment loop; tok is the current
\* segment (0 for a null pointer), save the save pointer of strtok, cmds
\* the stages so far, fresh the fields of a stage before its arguments
RECURSIVE TokSegmentLoop(_, _, _, _, _)
TokSegmentLoop(B, tok, save, cmds, fresh) ==
    IF tok = 0 \/ ~(Len(cmds) < MAX_PIPES) THEN [cmds |-> cmds, buf |-> B]
    ELSE IF StrLen(B, tok) = 0 THEN
        LET n == NextSegment(B, save) IN
        TokSegmentLoop(n.buf, n.tok, n.save, cmds, fresh)
    ELSE
        LET a == strtok_r(B, tok, TokBlank)
            first == [fresh EXCEPT !.args = IF a.tok = 0 THEN <<>>
                                            ELSE <<CStr(a.buf, a.tok)>>]
            r == TokArgLoop(a.buf, a.save, first)
            n == NextSegment(r.buf, r.save)
        IN  TokSegmentLoop(n.buf, n.tok, n.save, Append(cmds, r.cmd), fresh)

\* parse_pipeline of the variants: the stages, and the line buffer as the
\* tokenizer leaves it; part_000 clears the fields of a stage
\* (part_000:93-96), part_001 leaves in them what the array held
TokParse(l, fresh) ==
    LET B == CBuffer(l)
        t == strtok_r(B, 1, {"|"})
    IN  TokSegmentLoop(t.buf, t.tok, t.save, <<>>, fresh)

\* what an entry of main's uninitialised pipeline[] may hold in part_001
StaleCommands ==
    {NewCommand, [NewCommand EXCEPT !.input_file = <<"i">>, !.background = 1]}

\* part_000:222-223: the parse and the test of its result
TokParse000 ==
    /\ pc = "parse"
    /\ LET r == TokParse(input_line, NewCommand) IN
         /\ pipeline' = r.cmds
         /\ input_line' = CStr(r.buf, 1)
    /\ cmd_count' = Len(pipeline')
    /\ parsed' = input_line
    /\ pc' = IF cmd_count' = 0 THEN "prompt" ELSE "dispatch"
    /\ UNCHANGED <<reads, sig, foreground_mode, histVars, termVars,
                   editVars, execVars>>

\* part_001:235-236
TokParse001 ==
    /\ pc = "parse"
    /\ \E stale \in StaleCommands :
         LET r == TokParse(input_line, stale) IN
           /\ pipeline' = r.cmds
           /\ input_line' = CStr(r.buf, 1)
    /\ cmd_count' = Len(pipeline')
    /\ parsed' = input_line
    /\ pc' = IF cmd_count' = 0 THEN "prompt" ELSE "dispatch"
    /\ UNCHANGED <<reads, sig, foreground_mode, histVars, termVars,
                   editVars, execVars>>

\* part_000:217-222: a line read by fgets, its newline cut
TokInit ==
    /\ pc = "parse"
    /\ input_line \in ParseLines \cup SegmentLines \cup ItemLines
    /\ reads = 1
    /\ foreground_mode = 1
    /\ pipeline = <<>>
    /\ cmd_count = 0
    /\ parsed = <<>>
    /\ sig = "idle"
    /\ HistoryIdle /\ TermIdle /\ EditIdle /\ ExecIdle

TokNext == TokParse000 \/ TokParse001

TokSpec == TokInit /\ [][TokNext]_vars

\* ------------------------------------------------------------------------
\* C24
\* ------------------------------------------------------------------------
\* l is made of plain words and pipe signs only
PlainLine(l) == \A k \in 1 .. Len(l) : l[k] \notin {"<", ">", "&", "\""}

\* the segments strtok hands out for l: the ones of at least one character
\* (part_000:88 skips a token of length 0)
NonEmptyTokens(l) == SelectSeq(Segments(l), LAMBDA s : Len(s) > 0)

\* C24: in the variants a line of k non-empty segments, 1 <= k <= MAX_PIPES,
\* gives k stages, in the order of the line, each with the words of its
\* own segment as arguments
C24_VariantStagePerSegment ==
    (/\ pc # "parse"
     /\ PlainLine(parsed)
     /\ Len(NonEmptyTokens(parsed)) \in 1 .. MAX_PIPES) =>
        /\ cmd_count = Len(NonEmptyTokens(parsed))
        /\ \A k \in 1 .. Len(NonEmptyTokens(parsed)) :
              /\ k <= Len(pipeline)
              /\ pipeline[k].args = Words(NonEmptyTokens(parsed)[k])
====
